---- MODULE Spec2Model ----
(***************************************************************************)
(* The call-signaling and presence relay of server/src/index.ts: the       *)
(* connectedUsers registry, the cleanup interval with its ping timeouts,   *)
(* and the socket.io listeners registered for every connection.            *)
(*                                                                         *)
(* Every listener runs to completion, so each is one action.  A listener   *)
(* is written as a function from the server state                          *)
(*   [users, socks, timers, out]                                           *)
(* to the server state it leaves: users is connectedUsers, socks the keys  *)
(* of io.sockets.sockets (the connected sockets), timers the pending       *)
(* setTimeout callbacks of the cleanup, out the events emitted so far by   *)
(* the listener, in order.                                                 *)
(*                                                                         *)
(* Time.  The server reads the clock in `new Date()` (a refresh of         *)
(* lastSeen) and in the cleanup interval, which compares now - lastSeen    *)
(* with CONNECTION_TIMEOUT.  The model keeps for each entry the value of   *)
(* now - lastSeen as of the latest run of the cleanup interval, in ms; a   *)
(* refresh since that run counts as 0.  CONNECTION_TIMEOUT is a multiple   *)
(* of CLEANUP_INTERVAL, so every comparison the code makes has the same    *)
(* outcome on these values as on the exact ones.                           *)
(*                                                                         *)
(* The clients.  Two CallInterface components in one conversation, with    *)
(* the call:end / call:ended exchange between them (SpecCallEnd), and one  *)
(* SocketProvider with its socket, its effect and its timers               *)
(* (SpecProvider).  A React state change and the render that follows it    *)
(* are separate steps: a handler that runs in between sees the values of   *)
(* the render before.                                                      *)
(***************************************************************************)
EXTENDS Integers, Sequences, FiniteSets, TLC

\* ---------------------------------------------------------------- bounds
MaxSockets == 3
MaxIce == 2
\* pong timeouts of one socket pending at a time
MaxPongTimeouts == 2

\* ------------------------------------------------------- program constants
\* SocketProvider: the attempts after which no socket is created
maxAttempts == 3
CLEANUP_INTERVAL == 30000
CONNECTION_TIMEOUT == 120000
PING_TIMEOUT == 10000

\* ------------------------------------------------------------ input values
Undefined == "undefined"
\* the number 0, a value that is present and falsy
Zero == "0"
Uids == {"A", "B"}
\* identities a message can name; "C" never joins
Targets == Uids \cup {"C", Undefined}
\* identities a well-formed message names
Callees == Uids \cup {"C"}
\* an identity that joins and looks on: no call message names it
Onlooker == "D"
\* the display name a client sends with its join
NameOf(uid) == IF uid = "A" THEN "Ann" ELSE IF uid = "B" THEN "Bob" ELSE "Dan"
CallTypes == {"audio", "video"}
\* payloads: objects (a session description, a candidate) and strings
Obj(n) == "obj" \o ToString(n)
Str(n) == "str" \o ToString(n)
Objects == {Obj(n) : n \in 1..(MaxIce + 1)}
Payloads == {Obj(1), Str(1)}
\* `typeof x` of JavaScript for the values above
TypeOf(x) ==
    IF x \in Objects THEN "object" ELSE IF x = "undefined" THEN "undefined" ELSE "string"
ClientReasons == {"transport close"}
SocketIds == 1..MaxSockets

\* `!x` of JavaScript for the values above
Falsy(x) == x \in {Undefined, Zero}

VARIABLES
    connectedUsers,  \* the Map, as the sequence of its values in insertion order
    sockets,         \* ids of the connected sockets (io.sockets.sockets)
    nextSocket,      \* number of socket ids handed out so far
    timers,          \* pending ping timeouts of the cleanup, in firing order
    emitted,         \* events emitted by the latest step: <<[to, event, data]>>
    arrivals,        \* observer: ice-candidate messages numbered so far
    iceLog,          \* observer: candidates each socket received, in order
    quiet,           \* observer: per identity, ms since its channel last sent a message
    running,         \* the server process has not exited
    callInterface,   \* per client, the state of its CallInterface component
    callWire,        \* call:end messages on their way to the server, call:ended to the clients
    socketProvider   \* the state of one SocketProvider component and of its socket

\* the clients' side
clientVars == <<callInterface, callWire, socketProvider>>

\* the server's side
serverVars ==
    <<connectedUsers, sockets, nextSocket, timers, emitted, arrivals, iceLog, quiet, running>>

vars ==
    <<connectedUsers, sockets, nextSocket, timers, emitted, arrivals, iceLog, quiet, running,
      clientVars>>

\* ----------------------------------------------------------------- Map
\* interface User
User(id, socketId, name, lastSeen) ==
    [id |-> id, socketId |-> socketId, name |-> name, lastSeen |-> lastSeen]

\* position of key k in the Map, 0 when absent
MapIndex(m, k) ==
    IF \E i \in 1..Len(m) : m[i].id = k
    THEN CHOOSE i \in 1..Len(m) : m[i].id = k
    ELSE 0

MapHas(m, k) == MapIndex(m, k) # 0

MapGet(m, k) == m[MapIndex(m, k)]

\* Map.set: a present key keeps its place, a new key goes last
MapSet(m, k, v) ==
    IF MapHas(m, k) THEN [m EXCEPT ![MapIndex(m, k)] = v] ELSE Append(m, v)

\* Map.delete
MapDelete(m, k) ==
    SelectSeq(m, LAMBDA u : u.id # k)

\* `for (const [uid, user] of connectedUsers.entries()) if (user.socketId === socket.id) ... break`:
\* position of the first entry of socket sid, 0 when there is none
FirstOfSocket(m, sid) ==
    IF \E i \in 1..Len(m) : m[i].socketId = sid
    THEN CHOOSE i \in 1..Len(m) :
            /\ m[i].socketId = sid
            /\ \A j \in 1..(i - 1) : m[j].socketId # sid
    ELSE 0

\* ------------------------------------------------------------- emitting
Emit(to, event, data) == [to |-> to, event |-> event, data |-> data]

NoData == [none |-> TRUE]

\* socket.emit
ToSocket(st, sid, event, data) ==
    [st EXCEPT !.out = Append(@, Emit({sid} \cap st.socks, event, data))]

\* io.to(socketId).emit: the room of a socket that is gone is empty
ToRoom(st, sid, event, data) ==
    [st EXCEPT !.out = Append(@, Emit({sid} \cap st.socks, event, data))]

\* socket.broadcast.emit
Broadcast(st, sid, event, data) ==
    [st EXCEPT !.out = Append(@, Emit(st.socks \ {sid}, event, data))]

\* io.emit
ToAll(st, event, data) ==
    [st EXCEPT !.out = Append(@, Emit(st.socks, event, data))]

\* a disconnect listener that forgets the test user.socketId === socket.id
OnDisconnectAnyEntry(st, sid, reason) ==
    IF st.users = <<>> THEN st
    ELSE LET uid == st.users[1].id
             s1 == [st EXCEPT !.users = MapDelete(@, uid)]
             s2 == Broadcast(s1, sid, "user:offline", [uid |-> uid, reason |-> reason])
         IN Broadcast(s2, sid, "call:user-disconnected",
                      [uid |-> uid, reason |-> "User disconnected"])

\* --------------------------------------------------------- disconnect
\* socket.on('disconnect')
OnDisconnect(st, sid, reason) ==
    LET i == FirstOfSocket(st.users, sid) IN
    IF i = 0 THEN st
    ELSE LET uid == st.users[i].id
             s1 == [st EXCEPT !.users = MapDelete(@, uid)]
             s2 == Broadcast(s1, sid, "user:offline", [uid |-> uid, reason |-> reason])
         IN Broadcast(s2, sid, "call:user-disconnected",
                      [uid |-> uid, reason |-> "User disconnected"])

\* Socket.disconnect() / the transport closing: socket.io takes the socket out of
\* io.sockets.sockets and then runs the 'disconnect' listener, once per socket
CloseSocket(st, sid, reason) ==
    IF sid \notin st.socks THEN st
    ELSE OnDisconnect([st EXCEPT !.socks = @ \ {sid}], sid, reason)

\* socket.on('error')
OnError(st, sid) ==
    LET i == FirstOfSocket(st.users, sid) IN
    IF i = 0 THEN st
    ELSE LET uid == st.users[i].id
             s1 == [st EXCEPT !.users = MapDelete(@, uid)]
         IN Broadcast(s1, sid, "user:offline", [uid |-> uid, reason |-> "Connection error"])

\* --------------------------------------------------------------- join
\* a join that leaves the old socket of uid open
DisconnectOldSkipped(st, sid, uid) == st

\* the join of uid on socket sid finds uid connected with a different socket:
\* oldSocket.disconnect()
DisconnectOld(st, sid, uid) ==
    IF MapHas(st.users, uid) /\ MapGet(st.users, uid).socketId # sid
    THEN CloseSocket(st, MapGet(st.users, uid).socketId, "server namespace disconnect")
    ELSE st

\* a join that announces the user with io.emit, to the joining socket too
OnJoinToAll(st, sid, data) ==
    IF Falsy(data.uid)
    THEN ToSocket(st, sid, "connection:error", [message |-> "Invalid user data"])
    ELSE LET s1 == DisconnectOld(st, sid, data.uid)
             s2 == [s1 EXCEPT !.users = MapSet(@, data.uid, User(data.uid, sid, data.name, 0))]
             s3 == ToSocket(s2, sid, "connection:success", [uid |-> data.uid])
         IN ToAll(s3, "user:online", [uid |-> data.uid, name |-> data.name])

\* socket.on('join')
OnJoin(st, sid, data) ==
    IF Falsy(data.uid)
    THEN ToSocket(st, sid, "connection:error", [message |-> "Invalid user data"])
    ELSE LET s1 == DisconnectOld(st, sid, data.uid)
             s2 == [s1 EXCEPT !.users = MapSet(@, data.uid, User(data.uid, sid, data.name, 0))]
             s3 == ToSocket(s2, sid, "connection:success", [uid |-> data.uid])
         IN Broadcast(s3, sid, "user:online", [uid |-> data.uid, name |-> data.name])

\* --------------------------------------------------------- call:check-user
\* a call:check-user listener that trusts the registry and does not verify the socket
OnCheckUserTrustsRegistry(st, sid, data) ==
    IF ~MapHas(st.users, data.targetId)
    THEN ToSocket(st, sid, "call:user-unavailable", [message |-> "User is not online"])
    ELSE LET targetUser == MapGet(st.users, data.targetId) IN
         ToSocket([st EXCEPT !.users = MapSet(@, data.targetId,
                                              [targetUser EXCEPT !.lastSeen = 0])],
                  sid, "call:user-available",
                  [targetId |-> data.targetId, targetName |-> targetUser.name])

\* socket.on('call:check-user')
OnCheckUser(st, sid, data) ==
    IF ~MapHas(st.users, data.targetId)
    THEN ToSocket(st, sid, "call:user-unavailable", [message |-> "User is not online"])
    ELSE LET targetUser == MapGet(st.users, data.targetId) IN
         IF targetUser.socketId \notin st.socks
         THEN ToSocket([st EXCEPT !.users = MapDelete(@, data.targetId)], sid,
                       "call:user-unavailable", [message |-> "User is no longer available"])
         ELSE ToSocket([st EXCEPT !.users = MapSet(@, data.targetId,
                                                   [targetUser EXCEPT !.lastSeen = 0])],
                       sid, "call:user-available",
                       [targetId |-> data.targetId, targetName |-> targetUser.name])

\* ----------------------------------------------------------- call:reconnect
\* socket.on('call:reconnect')
OnReconnect(st, sid, data) ==
    IF ~MapHas(st.users, data.to) \/ ~MapHas(st.users, data.from)
    THEN ToSocket(st, sid, "call:user-unavailable",
                  [message |-> "User is no longer available for reconnection"])
    ELSE LET targetUser == MapGet(st.users, data.to)
             callerUser == MapGet(st.users, data.from)
             targetGone == targetUser.socketId \notin st.socks
             callerGone == callerUser.socketId \notin st.socks
         IN IF targetGone \/ callerGone
            THEN LET u1 == IF targetGone THEN MapDelete(st.users, data.to) ELSE st.users
                     u2 == IF callerGone THEN MapDelete(u1, data.from) ELSE u1
                 IN ToSocket([st EXCEPT !.users = u2], sid, "call:user-unavailable",
                             [message |-> "Connection lost during reconnection"])
            ELSE ToSocket(ToRoom(st, targetUser.socketId, "connection:recovered", NoData),
                          sid, "connection:recovered", NoData)

\* ------------------------------------------------------------ call:initiate
\* a call:initiate that returns without an event when the target is not connected
InitiateNoTargetSilent(st, sid) == st

\* a call:initiate that tells the caller the call is ringing before the target is notified
InitiateRelayRingingFirst(st, sid, data) ==
    LET targetUser == MapGet(st.users, data.to)
        u1 == MapSet(st.users, data.to, [targetUser EXCEPT !.lastSeen = 0])
        u2 == MapSet(u1, data.from, [MapGet(u1, data.from) EXCEPT !.lastSeen = 0])
        s1 == ToSocket([st EXCEPT !.users = u2], sid, "call:ringing", [to |-> data.to])
    IN ToRoom(s1, targetUser.socketId, "call:incoming",
              [from |-> data.from, signal |-> data.signal,
               type |-> data.type, callerName |-> data.callerName])

\* call:initiate, the target is not in connectedUsers
InitiateNoTarget(st, sid) ==
    ToSocket(st, sid, "call:user-unavailable", [message |-> "User is not available or offline"])

\* call:initiate, both users found and the target's socket connected: refresh both
\* lastSeen, notify the target, tell the caller that the call is ringing
InitiateRelay(st, sid, data) ==
    LET targetUser == MapGet(st.users, data.to)
        u1 == MapSet(st.users, data.to, [targetUser EXCEPT !.lastSeen = 0])
        u2 == MapSet(u1, data.from, [MapGet(u1, data.from) EXCEPT !.lastSeen = 0])
        s1 == ToRoom([st EXCEPT !.users = u2], targetUser.socketId, "call:incoming",
                     [from |-> data.from, signal |-> data.signal,
                      type |-> data.type, callerName |-> data.callerName])
    IN ToSocket(s1, sid, "call:ringing", [to |-> data.to])

\* a call:initiate that registers a caller it does not know on the sending socket
OnInitiateRegistersCaller(st, sid, data) ==
    IF Falsy(data.to) \/ Falsy(data.from) \/ Falsy(data.signal) \/ Falsy(data.type)
    THEN ToSocket(st, sid, "call:error", [message |-> "Invalid call data"])
    ELSE IF ~MapHas(st.users, data.to)
    THEN InitiateNoTarget(st, sid)
    ELSE IF MapGet(st.users, data.to).socketId \notin st.socks
    THEN ToSocket([st EXCEPT !.users = MapDelete(@, data.to)], sid,
                  "call:user-unavailable", [message |-> "User is no longer available"])
    ELSE InitiateRelay([st EXCEPT !.users =
                           MapSet(@, data.from, User(data.from, sid, data.callerName, 0))],
                       sid, data)

\* socket.on('call:initiate')
OnInitiate(st, sid, data) ==
    IF Falsy(data.to) \/ Falsy(data.from) \/ Falsy(data.signal) \/ Falsy(data.type)
    THEN ToSocket(st, sid, "call:error", [message |-> "Invalid call data"])
    ELSE IF ~MapHas(st.users, data.to)
    THEN InitiateNoTarget(st, sid)
    ELSE IF ~MapHas(st.users, data.from)
    THEN ToSocket(st, sid, "call:user-unavailable", [message |-> "Invalid caller session"])
    ELSE IF MapGet(st.users, data.to).socketId \notin st.socks
    THEN ToSocket([st EXCEPT !.users = MapDelete(@, data.to)], sid,
                  "call:user-unavailable", [message |-> "User is no longer available"])
    ELSE InitiateRelay(st, sid, data)

\* ------------------------------------------- call:answer, call:reject, call:end
\* a call:answer with the test of the target's socket inverted
OnAnswerInverted(st, sid, data) ==
    IF ~MapHas(st.users, data.to) THEN st
    ELSE LET targetUser == MapGet(st.users, data.to) IN
         IF targetUser.socketId \in st.socks
         THEN [st EXCEPT !.users = MapDelete(@, data.to)]
         ELSE ToRoom(st, targetUser.socketId, "call:accepted", [signal |-> data.signal])

\* a call:answer that is relayed only to a target that a call:initiate has just touched
OnAnswerNeedsInitiate(st, sid, data) ==
    IF ~MapHas(st.users, data.to) THEN st
    ELSE LET targetUser == MapGet(st.users, data.to) IN
         IF targetUser.socketId \notin st.socks
         THEN [st EXCEPT !.users = MapDelete(@, data.to)]
         ELSE IF targetUser.lastSeen # 0 THEN st
         ELSE ToRoom(st, targetUser.socketId, "call:accepted", [signal |-> data.signal])

\* socket.on('call:answer')
OnAnswer(st, sid, data) ==
    IF ~MapHas(st.users, data.to) THEN st
    ELSE LET targetUser == MapGet(st.users, data.to) IN
         IF targetUser.socketId \notin st.socks
         THEN [st EXCEPT !.users = MapDelete(@, data.to)]
         ELSE ToRoom(st, targetUser.socketId, "call:accepted", [signal |-> data.signal])

\* socket.on('call:reject')
OnReject(st, sid, data) ==
    IF MapHas(st.users, data.to) /\ MapGet(st.users, data.to).socketId \in st.socks
    THEN ToRoom(st, MapGet(st.users, data.to).socketId, "call:rejected", NoData)
    ELSE st

\* socket.on('call:end')
OnEnd(st, sid, data) ==
    IF MapHas(st.users, data.to) /\ MapGet(st.users, data.to).socketId \in st.socks
    THEN ToRoom(st, MapGet(st.users, data.to).socketId, "call:ended", NoData)
    ELSE st

\* ------------------------------------------------------------ ice-candidate
\* an ice-candidate relay that emits the candidate twice
IceRelayTwice(st, targetUser, data) ==
    IF TypeOf(data.candidate) = "object"
    THEN ToRoom(ToRoom(st, targetUser.socketId, "ice-candidate",
                       [candidate |-> data.candidate]),
                targetUser.socketId, "ice-candidate", [candidate |-> data.candidate])
    ELSE st

\* ice-candidate, the target's socket is connected: relay a candidate that is an object
IceRelay(st, targetUser, data) ==
    IF TypeOf(data.candidate) = "object"
    THEN ToRoom(st, targetUser.socketId, "ice-candidate", [candidate |-> data.candidate])
    ELSE st

\* socket.on('ice-candidate')
OnIceCandidate(st, sid, data) ==
    IF Falsy(data.to) \/ Falsy(data.candidate) THEN st
    ELSE IF ~MapHas(st.users, data.to) THEN st
    ELSE LET targetUser == MapGet(st.users, data.to) IN
         IF targetUser.socketId \notin st.socks
         THEN ToSocket([st EXCEPT !.users = MapDelete(@, data.to)], sid,
                       "call:user-unavailable",
                       [message |-> "Connection lost during call setup"])
         ELSE IceRelay(st, targetUser, data)

\* --------------------------------------------------------------------- ping
\* socket.on('ping'); "now" stands for Date.now()
OnPing(st, sid, data) ==
    LET s1 == ToSocket(st, sid, "pong",
                       [timestamp |-> IF Falsy(data.timestamp) THEN "now" ELSE data.timestamp,
                        serverTime |-> "now"])
        i == FirstOfSocket(st.users, sid)
    IN IF i = 0 THEN s1
       ELSE [s1 EXCEPT !.users = [@ EXCEPT ![i].lastSeen = 0]]

\* a 'pong' event arrives, the answer of a client to the 'ping' of the cleanup: no
\* listener is registered for it, socket.io drops it
OnPong(st, sid) == st

\* ------------------------------------------------------------- the cleanup
\* the largest value kept for now - lastSeen
MaxIdle == CONNECTION_TIMEOUT + 2 * CLEANUP_INTERVAL

\* CLEANUP_INTERVAL ms go by
Elapse(users) ==
    [i \in 1..Len(users) |->
        [users[i] EXCEPT !.lastSeen =
            IF @ + CLEANUP_INTERVAL > MaxIdle THEN MaxIdle ELSE @ + CLEANUP_INTERVAL]]

\* timeSinceLastSeen > CONNECTION_TIMEOUT
IsStale(user) == user.lastSeen > CONNECTION_TIMEOUT

\* the for loop of the cleanup over connectedUsers.entries(), from entry i on:
\* st with the pings sent and the timeouts armed, and the uids pushed to staleUsers
RECURSIVE SweepLoop(_, _, _)
SweepLoop(st, i, staleUsers) ==
    IF i > Len(st.users) THEN [st |-> st, staleUsers |-> staleUsers]
    ELSE LET user == st.users[i] IN
         IF ~IsStale(user) THEN SweepLoop(st, i + 1, staleUsers)
         ELSE IF user.socketId \notin st.socks
         THEN SweepLoop(st, i + 1, Append(staleUsers, user.id))
         ELSE LET s1 == ToRoom(st, user.socketId, "ping", NoData)
                  s2 == [s1 EXCEPT !.timers =
                            Append(@, [uid |-> user.id, socketId |-> user.socketId])]
              IN SweepLoop(s2, i + 1, staleUsers)

\* staleUsers.forEach(...)
RECURSIVE RemoveStale(_, _)
RemoveStale(st, staleUsers) ==
    IF staleUsers = <<>> THEN st
    ELSE LET uid == Head(staleUsers)
             s1 == [st EXCEPT !.users = MapDelete(@, uid)]
         IN RemoveStale(ToAll(s1, "user:offline", [uid |-> uid, reason |-> "Stale connection"]),
                        Tail(staleUsers))

\* the callback of setInterval(..., CLEANUP_INTERVAL)
OnCleanup(st) ==
    LET r == SweepLoop(st, 1, <<>>) IN RemoveStale(r.st, r.staleUsers)

\* the callback of setTimeout(..., 10000) armed by the cleanup for timer t; the `now`
\* it compares with is the one of the cleanup run that armed it
OnPingTimeout(st, t) ==
    IF MapHas(st.users, t.uid) /\ IsStale(MapGet(st.users, t.uid))
    THEN LET s1 == [st EXCEPT !.users = MapDelete(@, t.uid)]
             s2 == CloseSocket(s1, t.socketId, "server namespace disconnect")
         IN ToAll(s2, "user:offline", [uid |-> t.uid, reason |-> "Connection timeout"])
    ELSE st

\* ============================================================ the clients
\* ------------------------------------------------------ CallInterface
\* the other client of the conversation: its recipientId
recipientId(c) == IF c = "A" THEN "B" ELSE "A"

\* the values of the state that the handlers and endCall of one render close over
Rendered(ci) ==
    [isCallActive |-> ci.isCallActive, isEndingCall |-> ci.isEndingCall,
     isReconnecting |-> ci.isReconnecting]

\* useState: no call is active, nothing is ending; the effect has registered the
\* listeners of the first render
InitCallInterface ==
    [isCallActive |-> FALSE, isEndingCall |-> FALSE, isReconnecting |-> FALSE,
     incomingCall |-> FALSE,
     seen |-> [isCallActive |-> FALSE, isEndingCall |-> FALSE, isReconnecting |-> FALSE],
     listening |-> TRUE,    \* a 'call:ended' listener is registered on the socket
     resets |-> 0,          \* pending setTimeout(() => setIsEndingCall(false), 1000)
     sent |-> 0]            \* call:end messages emitted so far

\* endCall of a render that saw `seen` emits call:end
EmitsEnd(seen) == ~seen.isEndingCall /\ seen.isCallActive

\* endCall, as the function of the render that saw `seen`
endCall(ci, seen) ==
    IF seen.isEndingCall THEN ci
    ELSE [ci EXCEPT !.isEndingCall = TRUE,
                    !.listening = FALSE,
                    !.sent = IF seen.isCallActive THEN @ + 1 ELSE @,
                    !.isCallActive = FALSE,
                    !.incomingCall = FALSE,
                    !.isReconnecting = FALSE,
                    !.resets = @ + 1]

\* handleCallEnded of the render that saw `seen`
handleCallEnded(ci, seen) ==
    IF ~seen.isEndingCall /\ ~seen.isReconnecting THEN endCall(ci, seen) ELSE ci

\* the server of the conversation: both clients are registered on open sockets
CallServer ==
    [users |-> <<User("A", 1, "Ann", 0), User("B", 2, "Bob", 0)>>,
     socks |-> {1, 2}, timers |-> <<>>, out |-> <<>>]

\* the socket of client c
SocketOf(c) == MapGet(CallServer.users, c).socketId

\* ------------------------------------------------------ SocketProvider
\* useState and useRef, and the effect of the first render has created a socket
InitSocketProvider ==
    [connectionAttempts |-> 0,
     isConnected |-> FALSE,
     effectAttempts |-> 0,        \* connectionAttempts as the effect in place saw it
     newSocket |-> "opening",     \* "none", "opening", "connected", "reconnecting", "closed"
     heartbeatInterval |-> FALSE, \* the interval of startHeartbeat runs
     pongTimeouts |-> 0,          \* pending pong timeouts of the socket
     reconnectTimeout |-> FALSE]  \* the timer of the disconnect handler is pending

\* stopHeartbeat
stopHeartbeat(sp) == [sp EXCEPT !.heartbeatInterval = FALSE]

\* the cleanup function the effect returned, when it created a socket
EffectCleanup(sp) ==
    IF sp.newSocket = "none" THEN sp
    ELSE [stopHeartbeat(sp) EXCEPT !.reconnectTimeout = FALSE, !.newSocket = "closed"]

\* an effect that has no limit of attempts
EffectWithoutLimit(sp) ==
    [EffectCleanup(sp) EXCEPT !.effectAttempts = sp.connectionAttempts,
                              !.pongTimeouts = 0,
                              !.newSocket = "opening"]

\* useEffect(..., [connectionAttempts, maxAttempts]): the cleanup of the effect in
\* place, then the effect with the connectionAttempts of this render
Effect(sp) ==
    LET c == [EffectCleanup(sp) EXCEPT !.effectAttempts = sp.connectionAttempts,
                                       !.pongTimeouts = 0]
    IN IF sp.connectionAttempts >= maxAttempts
       THEN [c EXCEPT !.newSocket = "none"]
       ELSE [c EXCEPT !.newSocket = "opening"]

\* newSocket.on('connect')
onConnect(sp) ==
    [sp EXCEPT !.newSocket = "connected",
               !.isConnected = TRUE,
               !.connectionAttempts = 0,
               !.heartbeatInterval = TRUE]

\* newSocket.on('disconnect'); socket.io reconnects by itself after a transport close
onDisconnect(sp, reason) ==
    LET s1 == [stopHeartbeat(sp) EXCEPT !.isConnected = FALSE] IN
    IF reason \in {"transport close", "transport error"}
    THEN [s1 EXCEPT !.newSocket = "reconnecting", !.reconnectTimeout = TRUE]
    ELSE IF reason = "ping timeout"
    THEN [s1 EXCEPT !.newSocket = "reconnecting"]
    ELSE [s1 EXCEPT !.newSocket = "closed"]

\* newSocket.on('connect_error')
onConnectError(sp) ==
    [stopHeartbeat(sp) EXCEPT !.isConnected = FALSE,
                              !.connectionAttempts = @ + 1,
                              !.newSocket = "closed"]

\* the timer of the disconnect handler fires: setConnectionAttempts(prev => prev + 1)
onReconnectTimeout(sp) ==
    [sp EXCEPT !.reconnectTimeout = FALSE, !.connectionAttempts = @ + 1]

\* the interval of startHeartbeat fires
onHeartbeat(sp) ==
    IF sp.newSocket = "connected" THEN [sp EXCEPT !.pongTimeouts = @ + 1] ELSE sp

\* socket.once('pong'): every pending pong timeout is cleared
onPong(sp) == [sp EXCEPT !.pongTimeouts = 0]

\* a pong timeout fires: socket.disconnect()
onPongTimeout(sp) ==
    LET s1 == [sp EXCEPT !.pongTimeouts = @ - 1] IN
    IF sp.newSocket = "connected" THEN onDisconnect(s1, "io client disconnect")
    ELSE IF sp.newSocket = "reconnecting" THEN [s1 EXCEPT !.newSocket = "closed"]
    ELSE s1

\* ----------------------------------------------------------- the steps
St == [users |-> connectedUsers, socks |-> sockets, timers |-> timers, out |-> <<>>]

\* a listener or timer callback runs once the events of the one before are written
\* out, and leaves st
Commit(st) ==
    /\ running
    /\ emitted = <<>>
    /\ connectedUsers' = st.users
    /\ sockets' = st.socks
    /\ timers' = st.timers
    /\ emitted' = st.out

Init ==
    /\ connectedUsers = <<>>
    /\ sockets = {}
    /\ nextSocket = 0
    /\ timers = <<>>
    /\ emitted = <<>>
    /\ arrivals = 0
    /\ iceLog = [s \in SocketIds |-> <<>>]
    /\ quiet = [u \in Uids |-> 0]
    /\ running = TRUE
    /\ callInterface = [c \in Uids |-> InitCallInterface]
    /\ callWire = [started |-> FALSE, ends |-> <<>>, ended |-> [c \in Uids |-> 0]]
    /\ socketProvider = InitSocketProvider

\* what the clients send.  A message names any identity, registered or not, and a
\* malformed one misses one required field.
JoinData ==
    {[uid |-> u, name |-> NameOf(u)] : u \in Uids}
        \cup {[uid |-> Undefined, name |-> Undefined]}
CheckUserData == [targetId : Targets]
ReconnectData == [to : Callees, from : Callees]
WellFormedInitiate ==
    [to : Callees, from : Uids, signal : {Obj(1)}, type : CallTypes, callerName : {"Ann"}]
InitiateData ==
    WellFormedInitiate \cup
    {[[to |-> t, from |-> "A", signal |-> Obj(1), type |-> "video", callerName |-> "Ann"]
        EXCEPT ![f] = Undefined] : t \in {"B", "C"}, f \in {"to", "from", "signal", "type"}}
WellFormedAnswer == [to : Callees, signal : Payloads]
AnswerData ==
    WellFormedAnswer \cup
    {[to |-> Undefined, signal |-> Obj(1)], [to |-> "B", signal |-> Undefined]}
RejectData == [to : Targets]
IceData ==
    [to : Callees, candidate : Payloads] \cup
    {[to |-> Undefined, candidate |-> Obj(1)], [to |-> "B", candidate |-> Undefined]}
PingData == [timestamp : {Undefined, Zero, "t1"}]

\* io.on('connection'): a new socket with a fresh id
Connect ==
    /\ running
    /\ emitted = <<>>
    /\ nextSocket < MaxSockets
    /\ nextSocket' = nextSocket + 1
    /\ sockets' = sockets \cup {nextSocket + 1}
    /\ emitted' = <<>>
    /\ UNCHANGED <<connectedUsers, timers, arrivals, iceLog, quiet, running, clientVars>>

\* socket.io writes the emitted events to their sockets
Flush ==
    /\ emitted # <<>>
    /\ emitted' = <<>>
    /\ UNCHANGED <<connectedUsers, sockets, nextSocket, timers, arrivals, iceLog, quiet, running, clientVars>>

\* a step of the server alone: the observer of the ice-candidate stream stands still
ServerStep(st) ==
    /\ Commit(st)
    /\ UNCHANGED <<nextSocket, arrivals, iceLog, quiet, running, clientVars>>

JoinStep(sid, data) == ServerStep(OnJoin(St, sid, data))
CheckUserStep(sid, data) == ServerStep(OnCheckUser(St, sid, data))
ReconnectStep(sid, data) == ServerStep(OnReconnect(St, sid, data))
InitiateStep(sid, data) == ServerStep(OnInitiate(St, sid, data))
AnswerStep(sid, data) == ServerStep(OnAnswer(St, sid, data))
RejectStep(sid, data) == ServerStep(OnReject(St, sid, data))
EndStep(sid, data) == ServerStep(OnEnd(St, sid, data))
IceCandidateStep(sid, data) == ServerStep(OnIceCandidate(St, sid, data))
PingStep(sid, data) == ServerStep(OnPing(St, sid, data))
PongStep(sid) == ServerStep(OnPong(St, sid))
DisconnectStep(sid, reason) == ServerStep(CloseSocket(St, sid, reason))
SocketErrorStep(sid) == ServerStep(OnError(St, sid))

Join == \E sid \in sockets, data \in JoinData : JoinStep(sid, data)

CheckUser == \E sid \in sockets, data \in CheckUserData : CheckUserStep(sid, data)

Reconnect == \E sid \in sockets, data \in ReconnectData : ReconnectStep(sid, data)

Initiate == \E sid \in sockets, data \in InitiateData : InitiateStep(sid, data)

Answer == \E sid \in sockets, data \in AnswerData : AnswerStep(sid, data)

Reject == \E sid \in sockets, data \in RejectData : RejectStep(sid, data)

End == \E sid \in sockets, data \in RejectData : EndStep(sid, data)

IceCandidate == \E sid \in sockets, data \in IceData : IceCandidateStep(sid, data)

Ping == \E sid \in sockets, data \in PingData : PingStep(sid, data)

Pong == \E sid \in sockets : PongStep(sid)

\* the transport of a socket closes
Disconnect == \E sid \in sockets, reason \in ClientReasons : DisconnectStep(sid, reason)

\* socket.io reports an error on a socket
SocketError == \E sid \in sockets : SocketErrorStep(sid)

\* the ping timeouts a run of the cleanup arms have all run before the next run
TimeoutsRun == PING_TIMEOUT < CLEANUP_INTERVAL /\ timers = <<>>

\* the cleanup interval fires
Cleanup ==
    /\ TimeoutsRun
    /\ ServerStep(OnCleanup([St EXCEPT !.users = Elapse(@)]))

\* the oldest pending ping timeout fires
PingTimeout ==
    /\ timers # <<>>
    /\ ServerStep(OnPingTimeout([St EXCEPT !.timers = Tail(@)], Head(timers)))

\* the listeners that read a property of data before any test: data.uid,
\* data.targetId, data.from, data.to
ReadsData ==
    {"join", "call:check-user", "call:reconnect", "call:initiate", "call:answer",
     "call:reject", "call:end", "ice-candidate"}

\* reading a property of undefined throws a TypeError
Throws(event, data) == event \in ReadsData /\ data = Undefined

\* a socket emits an event without a data object: the listener throws, nothing catches
\* the exception, and the process exits with its registry, its sockets and its timers
UncaughtException ==
    \E sid \in sockets, event \in ReadsData :
        /\ running
        /\ emitted = <<>>
        /\ Throws(event, Undefined)
        /\ running' = FALSE
        /\ connectedUsers' = <<>>
        /\ sockets' = {}
        /\ timers' = <<>>
        /\ emitted' = <<>>
        /\ UNCHANGED <<nextSocket, arrivals, iceLog, quiet, clientVars>>

\* the ice-candidate events among out that socket t receives
IceReceived(out, t) ==
    SelectSeq(out, LAMBDA e : e.event = "ice-candidate" /\ t \in e.to)

\* an ice-candidate message arrives while the observer numbers the candidates by
\* arrival and records what every socket receives
IceArrive ==
    \E sid \in sockets, to \in Callees :
        /\ arrivals < MaxIce
        /\ Commit(OnIceCandidate(St, sid, [to |-> to, candidate |-> Obj(arrivals + 1)]))
        /\ arrivals' = arrivals + 1
        /\ iceLog' = [t \in SocketIds |->
                        iceLog[t] \o
                        [i \in 1..Len(IceReceived(emitted', t)) |->
                            [from |-> sid,
                             candidate |-> IceReceived(emitted', t)[i].data.candidate]]]
        /\ UNCHANGED <<nextSocket, quiet, running, clientVars>>

Next ==
    \/ Connect
    \/ Join
    \/ CheckUser
    \/ Reconnect
    \/ Initiate
    \/ Answer
    \/ Reject
    \/ End
    \/ IceCandidate
    \/ Ping
    \/ Pong
    \/ Disconnect
    \/ SocketError
    \/ Cleanup
    \/ PingTimeout
    \/ UncaughtException
    \/ Flush

Spec == Init /\ [][Next]_vars

\* the server with the observer of the ice-candidate stream: sockets connect, join,
\* fail and close while the numbered candidates arrive
NextStream ==
    \/ Connect
    \/ Join
    \/ Disconnect
    \/ SocketError
    \/ IceArrive
    \/ Flush

SpecStream == Init /\ [][NextStream]_vars

\* the server as the presence events see it: three identities join on the sockets,
\* sockets close and fail
PresenceJoinData == JoinData \cup {[uid |-> Onlooker, name |-> NameOf(Onlooker)]}

JoinPresence == \E sid \in sockets, data \in PresenceJoinData : JoinStep(sid, data)

NextPresence ==
    \/ Connect
    \/ JoinPresence
    \/ Disconnect
    \/ SocketError
    \/ Flush

SpecPresence == Init /\ [][NextPresence]_vars

\* the server with the observer of silence: for every registered identity, the time
\* since its channel last sent a message, kept like lastSeen (as of the latest run of
\* the cleanup, 0 when a message came since), 0 for an identity that is not registered
SilenceAfter(st, sender, elapsed) ==
    [u \in Uids |->
        IF ~MapHas(st.users, u) THEN 0
        ELSE IF MapGet(st.users, u).socketId = sender THEN 0
        ELSE IF quiet[u] + elapsed > MaxIdle THEN MaxIdle
        ELSE quiet[u] + elapsed]

\* a message of socket sid is handled and leaves st
Heard(sid, st) ==
    /\ Commit(st)
    /\ quiet' = SilenceAfter(st, sid, 0)
    /\ UNCHANGED <<nextSocket, arrivals, iceLog, running, clientVars>>

\* a timer of the cleanup has run after elapsed ms and leaves st; 0 is no socket
Timed(st, elapsed) ==
    /\ Commit(st)
    /\ quiet' = SilenceAfter(st, 0, elapsed)
    /\ UNCHANGED <<nextSocket, arrivals, iceLog, running, clientVars>>

JoinHeard == \E sid \in sockets, data \in JoinData : Heard(sid, OnJoin(St, sid, data))

PingHeard == \E sid \in sockets, data \in PingData : Heard(sid, OnPing(St, sid, data))

CheckUserHeard ==
    \E sid \in sockets, data \in CheckUserData : Heard(sid, OnCheckUser(St, sid, data))

InitiateHeard ==
    \E sid \in sockets, data \in WellFormedInitiate : Heard(sid, OnInitiate(St, sid, data))

DisconnectTimed ==
    \E sid \in sockets, reason \in ClientReasons : Timed(CloseSocket(St, sid, reason), 0)

CleanupTimed ==
    /\ TimeoutsRun
    /\ Timed(OnCleanup([St EXCEPT !.users = Elapse(@)]), CLEANUP_INTERVAL)

PingTimeoutTimed ==
    /\ timers # <<>>
    /\ Timed(OnPingTimeout([St EXCEPT !.timers = Tail(@)], Head(timers)), 0)

NextMonitor ==
    \/ Connect
    \/ JoinHeard
    \/ PingHeard
    \/ CheckUserHeard
    \/ InitiateHeard
    \/ DisconnectTimed
    \/ CleanupTimed
    \/ PingTimeoutTimed
    \/ Flush

SpecMonitor == Init /\ [][NextMonitor]_vars

\* ------------------------------------------- the end of a call, two clients
\* client c runs its CallInterface and leaves ci, with a call:end emitted or not
CallStep(c, ci, emits) ==
    /\ callInterface' = [callInterface EXCEPT ![c] = ci]
    /\ callWire' = IF emits
                   THEN [callWire EXCEPT !.ends = Append(@, [from |-> c, to |-> recipientId(c)])]
                   ELSE callWire
    /\ UNCHANGED <<serverVars, socketProvider>>

\* initiateCall: the first call of the conversation; the other client is shown the
\* incoming call
InitiateCall ==
    \E c \in Uids :
        /\ ~callWire.started
        /\ callInterface' = [callInterface EXCEPT ![c].isCallActive = TRUE,
                                                  ![recipientId(c)].incomingCall = TRUE]
        /\ callWire' = [callWire EXCEPT !.started = TRUE]
        /\ UNCHANGED <<serverVars, socketProvider>>

\* answerCall
AnswerCall ==
    \E c \in Uids :
        /\ callInterface[c].incomingCall
        /\ CallStep(c, [callInterface[c] EXCEPT !.isCallActive = TRUE, !.incomingCall = FALSE],
                    FALSE)

\* the component renders with the state it has, and its effect registers the
\* listeners of this render
Render ==
    \E c \in Uids :
        LET ci == callInterface[c] IN
        /\ ci.seen # Rendered(ci)
        /\ CallStep(c, [ci EXCEPT !.seen = Rendered(ci), !.listening = TRUE], FALSE)

\* the user ends the call on the screen of the active call
UserEndsCall ==
    \E c \in Uids :
        LET ci == callInterface[c] IN
        /\ ci.seen = Rendered(ci)
        /\ ci.isCallActive
        /\ CallStep(c, endCall(ci, ci.seen), EmitsEnd(ci.seen))

\* newPeer.on('error') during the call: attemptReconnection
PeerError ==
    \E c \in Uids :
        /\ callInterface[c].isCallActive
        /\ ~callInterface[c].isReconnecting
        /\ CallStep(c, [callInterface[c] EXCEPT !.isReconnecting = TRUE], FALSE)

\* the connection is back: setIsReconnecting(false)
ReconnectSettles ==
    \E c \in Uids :
        /\ callInterface[c].isReconnecting
        /\ CallStep(c, [callInterface[c] EXCEPT !.isReconnecting = FALSE], FALSE)

\* setTimeout(() => setIsEndingCall(false), 1000) fires
ResetEnding ==
    \E c \in Uids :
        /\ callInterface[c].resets > 0
        /\ CallStep(c, [callInterface[c] EXCEPT !.isEndingCall = FALSE, !.resets = @ - 1],
                    FALSE)

\* the server receives the oldest call:end and relays it
RelayEnd ==
    /\ callWire.ends # <<>>
    /\ LET m == Head(callWire.ends)
           st == OnEnd(CallServer, SocketOf(m.from), [to |-> m.to])
       IN callWire' = [callWire EXCEPT
                          !.ends = Tail(@),
                          !.ended = [c \in Uids |->
                                        @[c] + Cardinality({i \in 1..Len(st.out) :
                                                              /\ st.out[i].event = "call:ended"
                                                              /\ SocketOf(c) \in st.out[i].to})]]
    /\ UNCHANGED <<serverVars, callInterface, socketProvider>>

\* a call:ended reaches client c
DeliverEnded ==
    \E c \in Uids :
        LET ci == callInterface[c]
            heard == ci.listening /\ ~ci.seen.isEndingCall /\ ~ci.seen.isReconnecting
        IN /\ callWire.ended[c] > 0
           /\ callInterface' = [callInterface EXCEPT
                                   ![c] = IF ci.listening THEN handleCallEnded(ci, ci.seen)
                                                          ELSE ci]
           /\ callWire' = [callWire EXCEPT
                              !.ended[c] = @ - 1,
                              !.ends = IF heard /\ EmitsEnd(ci.seen)
                                       THEN Append(@, [from |-> c, to |-> recipientId(c)])
                                       ELSE @]
           /\ UNCHANGED <<serverVars, socketProvider>>

NextCallEnd ==
    \/ InitiateCall
    \/ AnswerCall
    \/ Render
    \/ UserEndsCall
    \/ PeerError
    \/ ReconnectSettles
    \/ ResetEnding
    \/ RelayEnd
    \/ DeliverEnded

SpecCallEnd == Init /\ [][NextCallEnd]_vars

\* ------------------------------------------------- one SocketProvider
ProviderStep(sp) ==
    /\ socketProvider' = sp
    /\ UNCHANGED <<serverVars, callInterface, callWire>>

\* the component has rendered with a connectionAttempts its effect has not seen
RunEffect ==
    /\ socketProvider.effectAttempts # socketProvider.connectionAttempts
    /\ ProviderStep(Effect(socketProvider))

SocketConnects ==
    /\ socketProvider.newSocket \in {"opening", "reconnecting"}
    /\ ProviderStep(onConnect(socketProvider))

SocketConnectError ==
    /\ socketProvider.newSocket \in {"opening", "reconnecting"}
    /\ ProviderStep(onConnectError(socketProvider))

SocketDisconnects ==
    \E reason \in {"transport close", "ping timeout", "io server disconnect"} :
        /\ socketProvider.newSocket = "connected"
        /\ ProviderStep(onDisconnect(socketProvider, reason))

ReconnectTimeout ==
    /\ socketProvider.reconnectTimeout
    /\ ProviderStep(onReconnectTimeout(socketProvider))

Heartbeat ==
    /\ socketProvider.heartbeatInterval
    /\ socketProvider.pongTimeouts < MaxPongTimeouts
    /\ ProviderStep(onHeartbeat(socketProvider))

PongArrives ==
    /\ socketProvider.newSocket = "connected"
    /\ socketProvider.pongTimeouts > 0
    /\ ProviderStep(onPong(socketProvider))

HeartbeatFails ==
    /\ socketProvider.pongTimeouts > 0
    /\ ProviderStep(onPongTimeout(socketProvider))

NextProvider ==
    \/ RunEffect
    \/ SocketConnects
    \/ SocketConnectError
    \/ SocketDisconnects
    \/ ReconnectTimeout
    \/ Heartbeat
    \/ PongArrives
    \/ HeartbeatFails

SpecProvider == Init /\ [][NextProvider]_vars

\* ================================================================ claims
\* A claim about a listener is stated over every reachable state in which a listener
\* can start (Idle) and every message that can arrive in it: st is the server state
\* the listener leaves, st.out what it emits.  The steps above take exactly these
\* states.
Idle == emitted = <<>>

\* uid is registered and bound to socket sid
BoundTo(m, uid, sid) == MapHas(m, uid) /\ MapGet(m, uid).socketId = sid

\* the server states one message can leave, whatever its kind and sender
MessageResults ==
    {OnJoin(St, sid, d) : sid \in sockets, d \in JoinData}
        \cup {OnCheckUser(St, sid, d) : sid \in sockets, d \in CheckUserData}
        \cup {OnReconnect(St, sid, d) : sid \in sockets, d \in ReconnectData}
        \cup {OnInitiate(St, sid, d) : sid \in sockets, d \in InitiateData}
        \cup {OnAnswer(St, sid, d) : sid \in sockets, d \in AnswerData}
        \cup {OnReject(St, sid, d) : sid \in sockets, d \in RejectData}
        \cup {OnEnd(St, sid, d) : sid \in sockets, d \in RejectData}
        \cup {OnIceCandidate(St, sid, d) : sid \in sockets, d \in IceData}
        \cup {OnPing(St, sid, d) : sid \in sockets, d \in PingData}

\* the server states the timers of the cleanup can leave
TimerResults ==
    IF timers = <<>>
    THEN {OnCleanup([St EXCEPT !.users = Elapse(@)])}
    ELSE {OnPingTimeout([St EXCEPT !.timers = Tail(@)], Head(timers))}

\* ---------------------------------------------------------------- C1
OneEntryPerIdentity ==
    \A i, j \in 1..Len(connectedUsers) :
        connectedUsers[i].id = connectedUsers[j].id => i = j

\* a join of a registered identity on another socket closes the socket of the old
\* entry and leaves the identity bound to the joining socket
JoinSupersedes ==
    Idle =>
        \A sid \in sockets, data \in JoinData :
            LET st == OnJoin(St, sid, data) IN
            (/\ MapHas(connectedUsers, data.uid)
             /\ MapGet(connectedUsers, data.uid).socketId # sid)
            => /\ MapGet(connectedUsers, data.uid).socketId \notin st.socks
               /\ BoundTo(st.users, data.uid, sid)
               /\ Cardinality({i \in 1..Len(st.users) : st.users[i].id = data.uid}) = 1

\* C1: the registry never holds two entries for one identity, and a join(X) on
\* channel c2 while X is registered on another channel c1 closes c1 and leaves the
\* single entry of X pointing to c2.
C1_LatestRegistrationWins == OneEntryPerIdentity /\ JoinSupersedes

\* X has re-registered on an open socket while its old socket was open: the old
\* socket's disconnect listener ran inside the join
C1_Witness ==
    \E sid \in sockets, uid \in Uids :
        /\ Len(emitted) = 4
        /\ emitted[1].event = "user:offline"
        /\ emitted[1].data = [uid |-> uid, reason |-> "server namespace disconnect"]
        /\ emitted[3] = Emit({sid}, "connection:success", [uid |-> uid])
        /\ BoundTo(connectedUsers, uid, sid)
        /\ Len(connectedUsers) = 1

\* ---------------------------------------------------------------- C2
\* st leaves every entry bound to a socket other than sid as it is bound
KeepsOtherSockets(st, sid) ==
    \A i \in 1..Len(connectedUsers) :
        connectedUsers[i].socketId # sid
            => BoundTo(st.users, connectedUsers[i].id, connectedUsers[i].socketId)

\* C2: a disconnect or error event of a channel c1, whenever it is processed (on its
\* own, inside the join that supersedes c1, or inside a ping timeout), leaves every
\* entry that points to another channel c2 in the registry, still pointing to c2; so
\* the entry of an identity re-registered on c2 survives the events of its old channel.
C2_OldChannelKeepsNewEntry ==
    Idle =>
        /\ \A sid \in sockets, reason \in ClientReasons :
              KeepsOtherSockets(CloseSocket(St, sid, reason), sid)
        /\ \A sid \in sockets : KeepsOtherSockets(OnError(St, sid), sid)
        /\ \A st \in MessageResults \cup TimerResults :
              \A sid \in sockets \ st.socks :
                  KeepsOtherSockets(st, sid)
        /\ JoinSupersedes

\* the old channel of A was closed by A's join on another socket, while B watched:
\* A points to the new socket and B's entry is untouched
C2_Witness ==
    \E sid \in sockets, other \in sockets :
        /\ sid # other
        /\ Len(emitted) = 4
        /\ emitted[1] = Emit({sid, other}, "user:offline",
                             [uid |-> "A", reason |-> "server namespace disconnect"])
        /\ emitted[4].event = "user:online"
        /\ BoundTo(connectedUsers, "A", sid)
        /\ BoundTo(connectedUsers, "B", other)

\* ---------------------------------------------------------------- C3
\* C3: every registry entry refers to a channel that is still open; once a channel
\* has disconnected no entry carries its socket id.
C3_NoDanglingEntry ==
    \A i \in 1..Len(connectedUsers) : connectedUsers[i].socketId \in sockets

\* ---------------------------------------------------------------- C4
\* C4: an entry X bound to an open channel c stays in the registry bound to c through
\* every message of every kind from every channel and through the cleanup timers, as
\* long as c stays open and reports no error.  (A join of X on another channel and an
\* eviction of X by the cleanup both close c.)
C4_EntryStaysUntilChannelEnds ==
    Idle =>
        \A i \in 1..Len(connectedUsers) :
            LET uid == connectedUsers[i].id
                sid == connectedUsers[i].socketId
            IN sid \in sockets =>
                  \A st \in MessageResults \cup TimerResults :
                      sid \in st.socks => BoundTo(st.users, uid, sid)

\* a call was relayed to B's channel and B is still bound to it, next to A
C4_Witness ==
    \E sid \in sockets :
        /\ Len(emitted) = 2
        /\ emitted[1].event = "call:incoming"
        /\ emitted[1].to = {sid}
        /\ BoundTo(connectedUsers, "B", sid)
        /\ MapHas(connectedUsers, "A")
        /\ MapGet(connectedUsers, "B").lastSeen = 0

\* ---------------------------------------------------------------- C5
\* exactly one call:user-unavailable, to the sender, and nothing else to anybody
OneUnavailableToSender(out, sid) ==
    /\ Len(out) = 1
    /\ out[1].event = "call:user-unavailable"
    /\ out[1].to = {sid}

\* C5 as stated: every call:initiate whose target was never registered ("C" never
\* joins) yields exactly one call:user-unavailable to the sender and nothing else.
C5_AsStated ==
    [][\A sid \in sockets, data \in InitiateData :
          (InitiateStep(sid, data) /\ data.to = "C")
              => OneUnavailableToSender(emitted', sid)]_vars

WellFormed(data) ==
    ~Falsy(data.to) /\ ~Falsy(data.from) /\ ~Falsy(data.signal) /\ ~Falsy(data.type)

\* C5 (amended): every call:initiate that carries to, from, signal and type and whose
\* target is not registered yields exactly one call:user-unavailable to the sender's
\* channel, no event to any other channel, and leaves the registry as it is.
C5_UnregisteredTargetUnavailable ==
    Idle =>
        \A sid \in sockets, data \in InitiateData :
            (WellFormed(data) /\ ~MapHas(connectedUsers, data.to))
            => LET st == OnInitiate(St, sid, data) IN
               /\ OneUnavailableToSender(st.out, sid)
               /\ st.users = connectedUsers

\* a registered caller got the one call:user-unavailable of a call to nobody
C5_Witness ==
    \E sid \in sockets :
        /\ emitted = <<Emit({sid}, "call:user-unavailable",
                            [message |-> "User is not available or offline"])>>
        /\ BoundTo(connectedUsers, "A", sid)
        /\ ~MapHas(connectedUsers, "B")

\* ---------------------------------------------------------------- C6
\* C6: when A and B are registered and B's channel is open, a call:initiate{to: B,
\* from: A, signal, type} puts exactly two events out: first one call:incoming with
\* from, signal and type to B's channel, then one call:ringing{to: B} to the sender.
C6_IncomingThenRinging ==
    Idle =>
        \A sid \in sockets, data \in WellFormedInitiate :
            (/\ MapHas(connectedUsers, data.from)
             /\ MapHas(connectedUsers, data.to)
             /\ MapGet(connectedUsers, data.to).socketId \in sockets)
            => OnInitiate(St, sid, data).out =
                  << Emit({MapGet(connectedUsers, data.to).socketId}, "call:incoming",
                          [from |-> data.from, signal |-> data.signal,
                           type |-> data.type, callerName |-> data.callerName]),
                     Emit({sid}, "call:ringing", [to |-> data.to]) >>

\* A, on its own channel, has called B on another channel
C6_Witness ==
    \E a, b \in sockets :
        /\ a # b
        /\ BoundTo(connectedUsers, "A", a)
        /\ BoundTo(connectedUsers, "B", b)
        /\ Len(emitted) = 2
        /\ emitted[1] = Emit({b}, "call:incoming",
                             [from |-> "A", signal |-> Obj(1), type |-> "video",
                              callerName |-> "Ann"])
        /\ emitted[2] = Emit({a}, "call:ringing", [to |-> "B"])

\* ---------------------------------------------------------------- C7
\* the listener relayed event to the channel registered for uid, or told the sender
\* that the user is unavailable
RelayedOrUnavailable(st, sid, uid, event) ==
    \/ /\ MapHas(connectedUsers, uid)
       /\ \E i \in 1..Len(st.out) :
             /\ st.out[i].event = event
             /\ st.out[i].to = {MapGet(connectedUsers, uid).socketId}
    \/ \E i \in 1..Len(st.out) :
          /\ st.out[i].event = "call:user-unavailable"
          /\ st.out[i].to = {sid}

\* C7: a well-formed signal of any kind is relayed to the channel registered for its
\* target or answered with call:user-unavailable to the sender, never dropped.
C7_NeverDroppedSilently ==
    Idle =>
        \A sid \in sockets :
            /\ \A d \in WellFormedInitiate :
                  RelayedOrUnavailable(OnInitiate(St, sid, d), sid, d.to, "call:incoming")
            /\ \A d \in ReconnectData :
                  RelayedOrUnavailable(OnReconnect(St, sid, d), sid, d.to,
                                       "connection:recovered")
            /\ \A d \in WellFormedAnswer :
                  RelayedOrUnavailable(OnAnswer(St, sid, d), sid, d.to, "call:accepted")
            /\ \A d \in [to : Callees] :
                  RelayedOrUnavailable(OnReject(St, sid, d), sid, d.to, "call:rejected")
            /\ \A d \in [to : Callees] :
                  RelayedOrUnavailable(OnEnd(St, sid, d), sid, d.to, "call:ended")
            /\ \A d \in [to : Callees, candidate : {Obj(1)}] :
                  RelayedOrUnavailable(OnIceCandidate(St, sid, d), sid, d.to, "ice-candidate")

\* ---------------------------------------------------------------- C8
\* the arrival number of a candidate the observer handed out
ArrivalOf(candidate) == CHOOSE n \in 1..(MaxIce + 1) : Obj(n) = candidate

\* C8: what a channel receives of the ice-candidate messages of one sender, it
\* receives in the order in which the messages arrived at the server, each once.
C8_IceCandidatesInOrder ==
    \A t \in SocketIds :
        \A i, j \in 1..Len(iceLog[t]) :
            (i < j /\ iceLog[t][i].from = iceLog[t][j].from)
                => ArrivalOf(iceLog[t][i].candidate) < ArrivalOf(iceLog[t][j].candidate)

\* one channel has sent two candidates to B, and B's channel has received both
C8_Witness ==
    \E a, b \in sockets :
        /\ a # b
        /\ BoundTo(connectedUsers, "B", b)
        /\ iceLog[b] = << [from |-> a, candidate |-> Obj(1)],
                          [from |-> a, candidate |-> Obj(2)] >>

\* ---------------------------------------------------------------- C9
\* the server after every pending ping timeout has run, in the order they were armed
RECURSIVE AfterTimeouts(_)
AfterTimeouts(st) ==
    IF st.timers = <<>> THEN st
    ELSE AfterTimeouts(OnPingTimeout([st EXCEPT !.timers = Tail(@)], Head(st.timers)))

\* C9: the cleanup removes an entry whose channel is open only when the entry was
\* stale at the sweep and has not been updated since; a ping that the entry's
\* channel sends while the ping timeout is pending keeps the entry registered.
C9_LivenessSignalPreventsEviction ==
    Idle =>
        /\ \A st \in TimerResults :
              \A i \in 1..Len(connectedUsers) :
                  LET user == connectedUsers[i]
                  IN (user.socketId \in sockets /\ ~MapHas(st.users, user.id))
                        => /\ timers # <<>>
                           /\ IsStale(user)
        /\ \A k \in 1..Len(timers) : \A data \in PingData :
              LET t == timers[k]
              IN (t.socketId \in sockets /\ BoundTo(connectedUsers, t.uid, t.socketId))
                    => BoundTo(AfterTimeouts(OnPing(St, t.socketId, data)).users,
                               t.uid, t.socketId)

\* ---------------------------------------------------------------- C10
\* the longest an identity can stay registered without a message of its channel, in
\* whole runs of the cleanup: CONNECTION_TIMEOUT, and the run that finds it stale
EvictionDeadline == CONNECTION_TIMEOUT + CLEANUP_INTERVAL

\* C10 as stated: whatever the other clients do, an identity whose open channel has
\* sent nothing for longer than the deadline is no longer registered.
C10_SilentIdentityEvicted ==
    \A i \in 1..Len(connectedUsers) :
        connectedUsers[i].socketId \in sockets
            => quiet[connectedUsers[i].id] <= EvictionDeadline

\* ---------------------------------------------------------------- C11
\* the events named event that st.out holds
Relayed(st, event) == {i \in 1..Len(st.out) : st.out[i].event = event}

\* call:initiate messages with every payload as the signal
InitiateWith(signal) ==
    {[d EXCEPT !.signal = signal] : d \in WellFormedInitiate}

\* C11: the router relays the payload unchanged and without looking at it: for two
\* messages that differ only in a payload that is present, one is relayed exactly
\* when the other is, and the payload the target receives is the payload sent.
C11_PayloadOpaque ==
    Idle =>
        \A sid \in sockets, to \in Callees, p \in Payloads, q \in Payloads :
            LET ice(x) == OnIceCandidate(St, sid, [to |-> to, candidate |-> x])
                answer(x) == OnAnswer(St, sid, [to |-> to, signal |-> x])
            IN /\ (Relayed(ice(p), "ice-candidate") = {})
                      <=> (Relayed(ice(q), "ice-candidate") = {})
               /\ \A i \in Relayed(ice(p), "ice-candidate") :
                      ice(p).out[i].data.candidate = p
               /\ (Relayed(answer(p), "call:accepted") = {})
                      <=> (Relayed(answer(q), "call:accepted") = {})
               /\ \A i \in Relayed(answer(p), "call:accepted") :
                      answer(p).out[i].data.signal = p
               /\ \A d \in InitiateWith(p) :
                      LET st == OnInitiate(St, sid, d) IN
                      /\ (Relayed(st, "call:incoming") = {})
                            <=> (Relayed(OnInitiate(St, sid, [d EXCEPT !.signal = q]),
                                         "call:incoming") = {})
                      /\ \A i \in Relayed(st, "call:incoming") : st.out[i].data.signal = p

\* ---------------------------------------------------------------- C12
\* exactly one error event, to the sender, and nothing else to anybody
OneErrorToSender(out, sid) ==
    /\ Len(out) = 1
    /\ out[1].event = "call:error"
    /\ out[1].to = {sid}

\* C12: every signal that misses a required field (to, from or the payload) is not
\* relayed and is answered with exactly one error event to its sender.
C12_MalformedSignalReported ==
    Idle =>
        \A sid \in sockets :
            /\ \A d \in InitiateData \ WellFormedInitiate :
                  OneErrorToSender(OnInitiate(St, sid, d).out, sid)
            /\ \A d \in AnswerData \ WellFormedAnswer :
                  OneErrorToSender(OnAnswer(St, sid, d).out, sid)
            /\ \A d \in {x \in IceData : Falsy(x.to) \/ Falsy(x.candidate)} :
                  OneErrorToSender(OnIceCandidate(St, sid, d).out, sid)
            /\ \A d \in {x \in RejectData : Falsy(x.to)} :
                  /\ OneErrorToSender(OnReject(St, sid, d).out, sid)
                  /\ OneErrorToSender(OnEnd(St, sid, d).out, sid)

\* ---------------------------------------------------------------- C13
\* socket sid is sent connection:recovered by st
Recovered(st, sid) ==
    \E i \in 1..Len(st.out) :
        st.out[i].event = "connection:recovered" /\ sid \in st.out[i].to

\* C13: a call:reconnect{to, from} with an identity that is not registered yields one
\* call:user-unavailable to the sender and nothing else; with both registered on open
\* channels, the channel of `to` and the channel of `from` each receive
\* connection:recovered, and nothing with a payload is emitted.
C13_ReconnectNotifiesBothSides ==
    Idle =>
        \A sid \in sockets, d \in ReconnectData :
            LET st == OnReconnect(St, sid, d) IN
            /\ (~MapHas(connectedUsers, d.to) \/ ~MapHas(connectedUsers, d.from))
                  => OneUnavailableToSender(st.out, sid)
            /\ (/\ MapHas(connectedUsers, d.to)
                /\ MapHas(connectedUsers, d.from)
                /\ MapGet(connectedUsers, d.to).socketId \in sockets
                /\ MapGet(connectedUsers, d.from).socketId \in sockets)
                  => /\ Recovered(st, MapGet(connectedUsers, d.to).socketId)
                     /\ Recovered(st, MapGet(connectedUsers, d.from).socketId)
                     /\ \A i \in 1..Len(st.out) :
                           /\ st.out[i].event = "connection:recovered"
                           /\ st.out[i].data = NoData

\* ---------------------------------------------------------------- C14
\* st has removed the entry of uid and told the sender, once, that uid is unavailable
RemovedAndUnavailable(st, sid, uid) ==
    /\ ~MapHas(st.users, uid)
    /\ OneUnavailableToSender(st.out, sid)

\* C14: for every signal kind, when the target is in the registry and its channel is
\* closed, the target's entry is removed and the sender receives exactly one
\* call:user-unavailable.
C14_ClosedTargetDeregistered ==
    Idle =>
        \A sid \in sockets, to \in Uids :
            (MapHas(connectedUsers, to) /\ MapGet(connectedUsers, to).socketId \notin sockets)
            => /\ \A d \in {x \in WellFormedInitiate : x.to = to} :
                     RemovedAndUnavailable(OnInitiate(St, sid, d), sid, to)
               /\ \A d \in {x \in WellFormedAnswer : x.to = to} :
                     RemovedAndUnavailable(OnAnswer(St, sid, d), sid, to)
               /\ RemovedAndUnavailable(OnReject(St, sid, [to |-> to]), sid, to)
               /\ RemovedAndUnavailable(OnEnd(St, sid, [to |-> to]), sid, to)
               /\ RemovedAndUnavailable(
                     OnIceCandidate(St, sid, [to |-> to, candidate |-> Obj(1)]), sid, to)

\* ---------------------------------------------------------------- C15
\* st has set lastSeen of the target uid and of the identities of socket sid to now
BothRefreshed(st, sid, uid) ==
    /\ MapHas(st.users, uid) /\ MapGet(st.users, uid).lastSeen = 0
    /\ \A i \in 1..Len(st.users) :
          st.users[i].socketId = sid => st.users[i].lastSeen = 0

\* st, which relayed event, has refreshed both ends
RefreshedIfRelayed(st, event, sid, uid) ==
    Relayed(st, event) # {} => BothRefreshed(st, sid, uid)

\* C15: after every relayed signal of any kind, lastSeen of the sender's identity and
\* of the target identity is the time of the relay.
C15_RelayRefreshesBothEnds ==
    Idle =>
        \A sid \in sockets, to \in Uids :
            /\ \A d \in {x \in WellFormedInitiate : x.to = to} :
                  LET st == OnInitiate(St, sid, d) IN
                  Relayed(st, "call:incoming") # {}
                      => /\ MapGet(st.users, to).lastSeen = 0
                         /\ MapGet(st.users, d.from).lastSeen = 0
            /\ \A d \in {x \in WellFormedAnswer : x.to = to} :
                  RefreshedIfRelayed(OnAnswer(St, sid, d), "call:accepted", sid, to)
            /\ RefreshedIfRelayed(OnReject(St, sid, [to |-> to]), "call:rejected", sid, to)
            /\ RefreshedIfRelayed(OnEnd(St, sid, [to |-> to]), "call:ended", sid, to)
            /\ RefreshedIfRelayed(OnIceCandidate(St, sid, [to |-> to, candidate |-> Obj(1)]),
                                  "ice-candidate", sid, to)

\* ---------------------------------------------------------------- C16
\* the user:offline events for uid that st.out holds
OfflineFor(st, uid) ==
    {i \in 1..Len(st.out) : st.out[i].event = "user:offline" /\ st.out[i].data.uid = uid}

\* C16: when a channel registered for X disconnects, X's entry is removed and exactly
\* one user:offline{uid: X, reason}, with the reason of the disconnect, goes to the
\* other channels; when a channel without an entry disconnects, the registry is
\* unchanged and no user:offline is emitted.
C16_DisconnectDeregistersAndNotifies ==
    Idle =>
        \A sid \in sockets, reason \in ClientReasons :
            LET st == CloseSocket(St, sid, reason) IN
            /\ \A k \in 1..Len(connectedUsers) :
                  connectedUsers[k].socketId = sid
                      => /\ ~MapHas(st.users, connectedUsers[k].id)
                         /\ Cardinality(OfflineFor(st, connectedUsers[k].id)) = 1
                         /\ \A i \in OfflineFor(st, connectedUsers[k].id) :
                               /\ st.out[i].data.reason = reason
                               /\ st.out[i].to = sockets \ {sid}
            /\ FirstOfSocket(connectedUsers, sid) = 0
                  => /\ st.users = connectedUsers
                     /\ Relayed(st, "user:offline") = {}

Notifications(st) ==
    {<<st.out[i].event, st.out[i].data.uid, st.out[i].to>> : i \in 1..Len(st.out)}

\* C18: an error event on a registered channel removes the entry and sends the other
\* channels the notifications a disconnect of the channel sends, and a disconnect of
\* the channel that follows emits no second user:offline for the identity.
C18_ErrorLikeDisconnect ==
    Idle =>
        \A sid \in sockets, reason \in ClientReasons :
            LET k == FirstOfSocket(connectedUsers, sid)
                failed == OnError(St, sid)
                closed == CloseSocket(St, sid, reason)
                after == CloseSocket([failed EXCEPT !.out = <<>>], sid, reason)
            IN k # 0 =>
                  /\ failed.users = closed.users
                  /\ Notifications(failed) = Notifications(closed)
                  /\ OfflineFor(after, connectedUsers[k].id) = {}

\* ---------------------------------------------------------------- C19
\* the server states left by the steps that remove an entry whose channel is stale
\* or dead: the cleanup and its ping timeouts, and the listeners that find the
\* socket of their target disconnected
DeadChannelResults ==
    TimerResults
        \cup {OnCheckUser(St, sid, d) : sid \in sockets, d \in CheckUserData}
        \cup {OnInitiate(St, sid, d) : sid \in sockets, d \in InitiateData}
        \cup {OnAnswer(St, sid, d) : sid \in sockets, d \in AnswerData}
        \cup {OnIceCandidate(St, sid, d) : sid \in sockets, d \in IceData}
        \cup {OnReconnect(St, sid, d) : sid \in sockets, d \in ReconnectData}

\* C19: every removal of an entry because its channel is stale or dead, by the
\* cleanup, by a ping timeout or by a listener that finds the target's socket
\* disconnected, comes with a user:offline for that identity to the other channels.
C19_EvictionAnnounced ==
    Idle =>
        \A st \in DeadChannelResults :
            \A k \in 1..Len(connectedUsers) :
                ~MapHas(st.users, connectedUsers[k].id)
                    => \E i \in OfflineFor(st, connectedUsers[k].id) :
                          st.socks \subseteq st.out[i].to

\* ---------------------------------------------------------------- C20
\* C20: no inbound message of any event type, however malformed, terminates the
\* server process.
C20_ProcessSurvivesAnyMessage == running

\* ---------------------------------------------------------------- C21
\* the events that carry a call signal to its target
CallSignals ==
    {"call:incoming", "call:accepted", "call:rejected", "call:ended", "ice-candidate"}

\* every entry of st was an entry before, for the same channel
NoEntryCreated(st) ==
    \A i \in 1..Len(st.users) :
        BoundTo(connectedUsers, st.users[i].id, st.users[i].socketId)

\* the server states a disconnect or an error event of a channel can leave
ChannelEndResults ==
    {CloseSocket(St, sid, reason) : sid \in sockets, reason \in ClientReasons}
        \cup {OnError(St, sid) : sid \in sockets}

\* the server states a message other than a join can leave
NonJoinResults ==
    MessageResults \ {OnJoin(St, sid, d) : sid \in sockets, d \in JoinData}

\* C21: only a join creates a registry entry, and only for the joining channel: no
\* ping, signal, check-user, reconnect, disconnect, error or timer adds an entry or
\* brings a removed one back, and a call signal is relayed only to a channel that
\* has an entry.
C21_OnlyJoinRegisters ==
    Idle =>
        /\ \A st \in NonJoinResults \cup TimerResults \cup ChannelEndResults :
              /\ NoEntryCreated(st)
              /\ \A i \in 1..Len(st.out) :
                    st.out[i].event \in CallSignals
                        => \A t \in st.out[i].to :
                              FirstOfSocket(connectedUsers, t) # 0
        /\ \A sid \in sockets, d \in JoinData :
              LET st == OnJoin(St, sid, d) IN
              \A i \in 1..Len(st.users) :
                  \/ BoundTo(connectedUsers, st.users[i].id, st.users[i].socketId)
                  \/ st.users[i].id = d.uid /\ st.users[i].socketId = sid

\* a third channel has closed; a channel without an entry asked for an identity that
\* is not registered and was told so, and A's channel still holds the only entry
C21_Witness ==
    \E a, c \in sockets :
        /\ a # c
        /\ connectedUsers = <<User("A", a, "Ann", 0)>>
        /\ sockets # 1..nextSocket
        /\ emitted = <<Emit({c}, "call:user-unavailable", [message |-> "User is not online"])>>

\* ---------------------------------------------------------------- C22
\* the server with everything forgotten that earlier messages and timers leave
\* behind apart from who is registered on which channel: every lastSeen, the timers
Forget(st) ==
    [st EXCEPT !.users = [i \in 1..Len(@) |-> [@[i] EXCEPT !.lastSeen = 0]],
               !.timers = <<>>]

\* uid is registered on a connected socket
Reachable(uid) ==
    MapHas(connectedUsers, uid) /\ MapGet(connectedUsers, uid).socketId \in sockets

\* C22: the server keeps no call state.  What a signal makes the server emit is the
\* same with the traces of earlier messages forgotten; a call:answer to a registered
\* target is relayed as call:accepted and a call:initiate between registered
\* identities as call:incoming in every reachable state, whatever came before; and
\* no timer of the server and no message but call:reject and call:end emits
\* call:rejected or call:ended.
C22_NoCallState ==
    Idle =>
        /\ \A sid \in sockets :
              /\ \A d \in InitiateData :
                    OnInitiate(Forget(St), sid, d).out = OnInitiate(St, sid, d).out
              /\ \A d \in AnswerData :
                    OnAnswer(Forget(St), sid, d).out = OnAnswer(St, sid, d).out
              /\ \A d \in RejectData :
                    /\ OnReject(Forget(St), sid, d).out = OnReject(St, sid, d).out
                    /\ OnEnd(Forget(St), sid, d).out = OnEnd(St, sid, d).out
              /\ \A d \in IceData :
                    OnIceCandidate(Forget(St), sid, d).out = OnIceCandidate(St, sid, d).out
              /\ \A d \in WellFormedAnswer :
                    Reachable(d.to)
                        => OnAnswer(St, sid, d).out =
                              <<Emit({MapGet(connectedUsers, d.to).socketId},
                                     "call:accepted", [signal |-> d.signal])>>
              /\ \A d \in WellFormedInitiate :
                    (Reachable(d.to) /\ MapHas(connectedUsers, d.from))
                        => Cardinality(Relayed(OnInitiate(St, sid, d), "call:incoming")) = 1
        /\ \A st \in TimerResults :
              \A i \in 1..Len(st.out) : st.out[i].event \notin CallSignals
        /\ \A st \in {OnJoin(St, sid, d) : sid \in sockets, d \in JoinData}
                \cup {OnCheckUser(St, sid, d) : sid \in sockets, d \in CheckUserData}
                \cup {OnReconnect(St, sid, d) : sid \in sockets, d \in ReconnectData}
                \cup {OnInitiate(St, sid, d) : sid \in sockets, d \in InitiateData}
                \cup {OnAnswer(St, sid, d) : sid \in sockets, d \in AnswerData}
                \cup {OnIceCandidate(St, sid, d) : sid \in sockets, d \in IceData}
                \cup {OnPing(St, sid, d) : sid \in sockets, d \in PingData}
                \cup ChannelEndResults :
              Relayed(st, "call:rejected") \cup Relayed(st, "call:ended") = {}

\* a call:answer was relayed to A's channel as call:accepted although no
\* call:initiate has touched A or B since the cleanup last ran
C22_Witness ==
    \E a, b \in sockets :
        /\ a # b
        /\ connectedUsers = <<User("A", a, "Ann", CLEANUP_INTERVAL),
                              User("B", b, "Bob", CLEANUP_INTERVAL)>>
        /\ emitted = <<Emit({a}, "call:accepted", [signal |-> Obj(1)])>>

\* ---------------------------------------------------------------- C23
\* C23: an identity whose channel stays open and whose client answers the ping of
\* the cleanup with a pong before the ping timeout runs is not evicted.
C23_AnsweredProbeKeepsEntry ==
    Idle =>
        \A k \in 1..Len(timers) :
            LET t == timers[k]
            IN (t.socketId \in sockets /\ BoundTo(connectedUsers, t.uid, t.socketId))
                  => BoundTo(AfterTimeouts(OnPong(St, t.socketId)).users, t.uid, t.socketId)

\* ---------------------------------------------------------------- C24
\* the entries of m whose channel is open, as pairs of identity and channel
OpenEntries(m, socks) ==
    {<<m[i].id, m[i].socketId>> : i \in {j \in 1..Len(m) : m[j].socketId \in socks}}

\* C24: every call:check-user{targetId} yields exactly one event, to the sender:
\* call:user-available when the target is registered on an open channel,
\* call:user-unavailable otherwise; nothing goes to the target, no channel is closed
\* and the entries with an open channel are the same before and after.
C24_CheckUserRepliesOnce ==
    Idle =>
        \A sid \in sockets, d \in CheckUserData :
            LET st == OnCheckUser(St, sid, d) IN
            /\ Len(st.out) = 1
            /\ st.out[1].to = {sid}
            /\ st.out[1].event = IF Reachable(d.targetId) THEN "call:user-available"
                                                           ELSE "call:user-unavailable"
            /\ st.socks = sockets
            /\ OpenEntries(st.users, st.socks) = OpenEntries(connectedUsers, sockets)

\* a channel asked for an identity whose entry had outlived its channel and was told
\* that it is no longer available
C24_Witness ==
    \E c \in sockets :
        emitted = <<Emit({c}, "call:user-unavailable",
                         [message |-> "User is no longer available"])>>

\* ---------------------------------------------------------------- C25
\* C25: every ping on a channel, joined or not, yields exactly one pong to that
\* channel, with the timestamp of the ping (the server time when the ping has none)
\* and serverTime; lastSeen of every identity registered on that channel is
\* refreshed, and no other entry changes.
C25_PingEchoedAndRefreshes ==
    Idle =>
        \A sid \in sockets, d \in PingData :
            LET st == OnPing(St, sid, d) IN
            /\ st.out = <<Emit({sid}, "pong",
                               [timestamp |-> IF d.timestamp = Undefined THEN "now"
                                                                         ELSE d.timestamp,
                                serverTime |-> "now"])>>
            /\ Len(st.users) = Len(connectedUsers)
            /\ \A i \in 1..Len(connectedUsers) :
                  st.users[i] = IF connectedUsers[i].socketId = sid
                                THEN [connectedUsers[i] EXCEPT !.lastSeen = 0]
                                ELSE connectedUsers[i]

\* ---------------------------------------------------------------- C26
\* C26: no channel is bound to more than one identity in the registry, and the
\* disconnect of a channel leaves no entry that refers to it.
C26_ChannelBoundToOneIdentity ==
    /\ \A i, j \in 1..Len(connectedUsers) :
          connectedUsers[i].socketId = connectedUsers[j].socketId => i = j
    /\ Idle =>
          \A sid \in sockets, reason \in ClientReasons :
              FirstOfSocket(CloseSocket(St, sid, reason).users, sid) = 0

\* ---------------------------------------------------------------- C27
\* C27: every call:incoming names as `from` the identity registered on the channel
\* that sent the call:initiate, and a channel obtains call:ringing or
\* connection:recovered only for a `from` that is registered on it.
C27_FromIsTheSender ==
    Idle =>
        \A sid \in sockets :
            /\ \A d \in InitiateData :
                  LET st == OnInitiate(St, sid, d) IN
                  /\ \A i \in Relayed(st, "call:incoming") :
                        BoundTo(connectedUsers, st.out[i].data.from, sid)
                  /\ Relayed(st, "call:ringing") # {}
                        => BoundTo(connectedUsers, d.from, sid)
            /\ \A d \in ReconnectData :
                  Recovered(OnReconnect(St, sid, d), sid)
                      => BoundTo(connectedUsers, d.from, sid)

\* ---------------------------------------------------------------- C28
\* the user:online events for uid that st.out holds
OnlineFor(st, uid) ==
    {i \in 1..Len(st.out) : st.out[i].event = "user:online" /\ st.out[i].data.uid = uid}

\* the sockets of st, other than sid, on which an identity other than uid is registered
Observers(st, sid, uid) ==
    {st.users[k].socketId : k \in {n \in 1..Len(st.users) : st.users[n].id # uid}}
        \cap (st.socks \ {sid})

\* C28: when a join{uid: X} arrives while X is registered on another, open channel,
\* every channel of another registered identity is sent a user:offline for X and,
\* after it, the user:online for X, and no user:offline for X follows the
\* user:online.
C28_OfflineBeforeOnline ==
    Idle =>
        \A sid \in sockets, data \in PresenceJoinData :
            LET st == OnJoin(St, sid, data) IN
            (/\ MapHas(connectedUsers, data.uid)
             /\ MapGet(connectedUsers, data.uid).socketId \in sockets \ {sid})
            => \A o \in Observers(st, sid, data.uid) :
                  /\ \E i \in OfflineFor(st, data.uid), j \in OnlineFor(st, data.uid) :
                        i < j /\ o \in st.out[i].to /\ o \in st.out[j].to
                  /\ \A i \in OfflineFor(st, data.uid), j \in OnlineFor(st, data.uid) : i < j

\* ---------------------------------------------------------------- C29
\* some client has ended the active call, and nothing is left to happen: no message
\* is on its way, no timer is pending, every component has rendered its state and
\* no client is reconnecting
CallEndSettled ==
    /\ \E c \in Uids : callInterface[c].sent > 0
    /\ callWire.ends = <<>>
    /\ \A c \in Uids :
          /\ callWire.ended[c] = 0
          /\ callInterface[c].resets = 0
          /\ callInterface[c].seen = Rendered(callInterface[c])
          /\ ~callInterface[c].isReconnecting

\* C29: each client emits call:end at most once for the call, and once a client has
\* ended the call and the exchange has settled, isCallActive is false on both
\* clients.
C29_EndOfCallTerminates ==
    /\ \A c \in Uids : callInterface[c].sent <= 1
    /\ CallEndSettled => \A c \in Uids : ~callInterface[c].isCallActive

\* ---------------------------------------------------------------- C30
\* C30: connectionAttempts never exceeds maxAttempts; once it has reached
\* maxAttempts the effect creates no socket and none is open; and the connect
\* handler sets it to 0 whenever a socket connects.
C30_AttemptsBounded ==
    /\ socketProvider.connectionAttempts <= maxAttempts
    /\ socketProvider.connectionAttempts >= maxAttempts
          => /\ socketProvider.newSocket \in {"none", "closed"}
             /\ Effect(socketProvider).newSocket = "none"
    /\ socketProvider.newSocket \in {"opening", "reconnecting"}
          => onConnect(socketProvider).connectionAttempts = 0

\* three attempts have failed and the effect has run without creating a socket
C30_Witness ==
    /\ socketProvider.connectionAttempts = maxAttempts
    /\ socketProvider.effectAttempts = maxAttempts
    /\ socketProvider.newSocket = "none"

====
